---- MODULE Spec2Model ----
(***************************************************************************)
(* ascii-star: the playback loop of main.rs (run, handle_message) and the  *)
(* render path of draw.rs (generate_screen, draw_notelines,                *)
(* line_to_corlor_str, line_to_str).  main.rs carries an older copy of the *)
(* render functions (lines 206-531) whose highlight logic is identical.    *)
(*                                                                         *)
(* Numbers.  A beat is an f32 in the code.  Here a beat is a count of half *)
(* beats (hb), so that fractional beats exist, or the value Big: a beat of *)
(* 2^31 or more, which no i32 reaches.  Products with chars_per_beat are   *)
(* computed exactly (the f32 rounding of the last bit is not modelled);    *)
(* the IEEE special values of a division by zero (inf, NaN) and Rust's     *)
(* saturating float-to-integer casts are modelled.                         *)
(*                                                                         *)
(* pitch.rs (get_dominant_note and what it calls) is not called by run; it *)
(* is a pure function of a sample buffer and is modelled under its own     *)
(* specification, SpecPitch, whose one action applies it to a buffer.      *)
(***************************************************************************)
EXTENDS Integers, Sequences, FiniteSets, TLC

VARIABLES song, build, current_line, next_line, line_iter,
          playing, terminate, duration, pc, tick, capture

vars == <<song, build, current_line, next_line, line_iter,
          playing, terminate, duration, pc, tick, capture>>

(***************************************************************************)
(* Machine integers                                                        *)
(***************************************************************************)
I32Max == 2147483647

I32Min == -I32Max - 1

U16Max == 65535

(***************************************************************************)
(* Song data (ultrastar_txt::Note, ::Line, ::Header as the code reads them)*)
(***************************************************************************)
TimedTypes == {"Regular", "Golden", "Freestyle"}

Regular(s, d, t) == [type |-> "Regular", start |-> s, duration |-> d, text |-> t]

Golden(s, d, t) == [type |-> "Golden", start |-> s, duration |-> d, text |-> t]

Freestyle(s, d, t) == [type |-> "Freestyle", start |-> s, duration |-> d, text |-> t]

PlayerChange == [type |-> "PlayerChange", start |-> 0, duration |-> 0, text |-> ""]

Line(s, ns) == [start |-> s, notes |-> ns]

\* Header.gap is an Option<f32>, in milliseconds
Header(b, g) == [bpm |-> b, gap |-> [some |-> TRUE, ms |-> g]]

HeaderNoGap(b) == [bpm |-> b, gap |-> [some |-> FALSE, ms |-> 0]]

\* Option::unwrap_or
unwrap_or(opt, default) == IF opt.some THEN opt.ms ELSE default

Song(h, ls) == [header |-> h, lines |-> ls]

IsTimed(note) == note.type \in TimedTypes

\* The indices of the notes the loops of draw.rs do not skip ("_ => continue").
TimedNotes(line) ==
    SelectSeq([i \in 1..Len(line.notes) |-> i], LAMBDA i : IsTimed(line.notes[i]))

(***************************************************************************)
(* Beats                                                                   *)
(***************************************************************************)
Big == [big |-> TRUE, hb |-> 0]

Finite(h) == [big |-> FALSE, hb |-> h]

\* beat >= x as f32
BeatGE(beat, x) == beat.big \/ beat.hb >= 2 * x

\* beat > x as f32
BeatGT(beat, x) == beat.big \/ beat.hb > 2 * x

\* x as f32 >= beat, which is also beat <= x as f32
BeatLE(beat, x) == ~beat.big /\ beat.hb <= 2 * x

\* beat + 100.0
BeatPlus100(beat) == IF beat.big THEN Big ELSE Finite(beat.hb + 200)

\* beat as i32: truncation towards zero, saturating
BeatAsI32(beat) ==
    IF beat.big THEN I32Max
    ELSE IF beat.hb >= 0 THEN beat.hb \div 2 ELSE -((-beat.hb) \div 2)

BeatAt_quarter_notes(position_ms, header) ==
    LET d == position_ms - unwrap_or(header.gap, 0) IN
    IF header.bpm % 15000 = 0
    THEN LET k == header.bpm \div 15000 IN
         IF k > 0 /\ d > I32Max \div k THEN Big ELSE Finite((d * k) \div 2)
    ELSE Finite((d * header.bpm) \div 30000)

\* main.rs 88-89 and 160-163: bpms = bpm / 60 / 1000, gap, and
\* beat = (position_ms - gap) * (bpms * 4), in half beats: (pos - gap) * bpm / 7500.
BeatAt(position_ms, header) ==
    LET d == position_ms - unwrap_or(header.gap, 0) IN
    IF header.bpm % 15000 = 0
    THEN LET k == header.bpm \div 15000 IN
         IF k > 0 /\ d > I32Max \div k THEN Big ELSE Finite(2 * d * k)
    ELSE Finite((d * header.bpm) \div 7500)

(***************************************************************************)
(* draw.rs: line_to_str and line_to_corlor_str                             *)
(***************************************************************************)
RECURSIVE TextLen(_, _)
\* line_to_str(line).len(): the texts of the timed notes, concatenated.
TextLen(line, i) ==
    IF i > Len(line.notes) THEN 0
    ELSE (IF IsTimed(line.notes[i]) THEN Len(line.notes[i].text) ELSE 0)
         + TextLen(line, i + 1)

\* draw.rs 289-312: the colour of one timed note's text.
LyricColor(note, beat) ==
    IF BeatGE(beat, note.start)
    THEN IF BeatLE(beat, note.start + note.duration)
         THEN (IF note.type = "Golden" THEN "black_on_bright_yellow"
                                     ELSE "black_on_bright_white")
         ELSE (IF note.type = "Golden" THEN "yellow" ELSE "white")
    ELSE (IF note.type = "Golden" THEN "bright_yellow" ELSE "bright_blue")

\* draw.rs 263-315: one coloured piece per timed note, in note order.
line_to_corlor_str(line, beat) ==
    LET T == TimedNotes(line) IN
    [k \in 1..Len(T) |->
        [note |-> T[k],
         text |-> line.notes[T[k]].text,
         color |-> LyricColor(line.notes[T[k]], beat)]]

(***************************************************************************)
(* draw.rs: draw_notelines                                                 *)
(***************************************************************************)
\* draw.rs 40-64: the start of notes.first(), 0 for a PlayerChange.
FirstNoteStart(line) ==
    LET note == line.notes[1] IN
    IF IsTimed(note) THEN note.start ELSE 0

\* draw.rs 66-90: start + duration of notes.last(), 0 for a PlayerChange.
LastNoteEnd(line) ==
    LET note == line.notes[Len(line.notes)] IN
    IF IsTimed(note) THEN note.start + note.duration ELSE 0

\* draw.rs 92: term_width as f32 / (last_note_end - first_note_start) as f32.
\* An f32 division by zero is no error: it gives inf, or NaN for 0 / 0.
CharsPerBeat(term_width, first_note_start, last_note_end) ==
    LET r == last_note_end - first_note_start IN
    IF r = 0
    THEN [kind |-> IF term_width = 0 THEN "nan" ELSE "inf", num |-> 0, den |-> 0]
    ELSE [kind |-> "finite", num |-> term_width, den |-> r]

\* ((h / 2) * chars_per_beat) cast to an unsigned integer, h in half beats:
\* the cast truncates, maps NaN and every negative value to 0 and saturates
\* (sat) on +inf.
Cells(h, cpb) ==
    IF cpb.kind = "nan" THEN [sat |-> FALSE, n |-> 0]
    ELSE IF cpb.kind = "inf" THEN [sat |-> h > 0, n |-> 0]
    ELSE IF cpb.den > 0
         THEN [sat |-> FALSE,
               n |-> IF h <= 0 THEN 0 ELSE (h * cpb.num) \div (2 * cpb.den)]
         ELSE [sat |-> FALSE,
               n |-> IF h >= 0 THEN 0 ELSE ((-h) * cpb.num) \div (2 * (-cpb.den))]

\* draw.rs 119: (... as u16) + 1.  The cast saturates at 65535, and the
\* addition then overflows: a panic with overflow checks, 0 without.
NoteHpos(note, first_note_start, cpb, bld) ==
    LET c == Cells(2 * (note.start - first_note_start), cpb)
        u == IF c.sat \/ c.n > U16Max THEN U16Max ELSE c.n IN
    IF u = U16Max
    THEN [panic |-> bld = "debug", col |-> 0]
    ELSE [panic |-> FALSE, col |-> u + 1]

\* A variant of BarBranch that takes a note as started only after its start.
BarBranch_strict_start(note, beat) ==
    IF BeatGT(beat, note.start)
    THEN IF BeatLE(beat, note.start + note.duration) THEN "current" ELSE "played"
    ELSE "upcoming"

\* A variant of BarBranch that keeps a note current once it has started.
BarBranch_never_played(note, beat) ==
    IF BeatGE(beat, note.start) THEN "current" ELSE "upcoming"

\* draw.rs 123, 133: which of the three branches draws the note's bar.
BarBranch(note, beat) ==
    IF BeatGE(beat, note.start)
    THEN IF BeatLE(beat, note.start + note.duration) THEN "current" ELSE "played"
    ELSE "upcoming"

\* draw.rs 134-221: the colour of the full bar in each branch.
BarColor(note, branch) ==
    IF branch = "played"
    THEN (IF note.type = "Golden" THEN "bright_yellow" ELSE "white")
    ELSE (IF note.type = "Golden" THEN "yellow" ELSE "bright_blue")

\* draw.rs 144, 159: the colour of the marked sub-bar of a current note.
MarkedColor(note) == IF note.type = "Golden" THEN "bright_yellow" ELSE "white"

NoCells == [sat |-> FALSE, n |-> 0]

\* The segment record of one timed note, from the values NoteSegment computes.
Segment(i, note, hpos, branch, has_elapsed, times, full, marked) ==
    [note |-> i,
     panic |-> hpos.panic \/ times.sat \/ full.sat \/ marked.sat,
     hpos |-> hpos.col,
     branch |-> branch,
     color |-> BarColor(note, branch),
     full |-> full.n,
     has_marked |-> branch = "current",
     marked_color |-> IF branch = "current" THEN MarkedColor(note) ELSE "none",
     marked |-> marked.n,
     has_elapsed |-> has_elapsed,
     elapsed |-> times.n]

\* A variant of NoteSegment that measures the marked sub-bar from the start
\* of the line instead of the start of the note.
NoteSegment_marked_from_line_start(note, i, beat, first_note_start, last_note_end, cpb, bld) ==
    Segment(i, note,
            NoteHpos(note, first_note_start, cpb, bld),
            BarBranch(note, beat),
            BeatGE(beat, note.start) /\ BeatLE(beat, last_note_end),
            IF BeatGE(beat, note.start) /\ BeatLE(beat, last_note_end)
            THEN Cells(beat.hb - 2 * note.start, cpb) ELSE NoCells,
            Cells(2 * note.duration, cpb),
            IF BarBranch(note, beat) = "current"
            THEN Cells(beat.hb - 2 * first_note_start, cpb) ELSE NoCells)

\* draw.rs 94-223, one iteration of the loop for a timed note: the elapsed
\* bar at Goto(1, 1) (125-130), the full bar and for a current note the
\* marked sub-bar.  "#".repeat(usize::MAX) panics (capacity overflow).
\* (The row, note_vpos, comes from pitch_calc's letter and is not modelled.)
NoteSegment(note, i, beat, first_note_start, last_note_end, cpb, bld) ==
    Segment(i, note,
            NoteHpos(note, first_note_start, cpb, bld),
            BarBranch(note, beat),
            BeatGE(beat, note.start) /\ BeatLE(beat, last_note_end),
            IF BeatGE(beat, note.start) /\ BeatLE(beat, last_note_end)
            THEN Cells(beat.hb - 2 * note.start, cpb) ELSE NoCells,
            Cells(2 * note.duration, cpb),
            IF BarBranch(note, beat) = "current"
            THEN Cells(beat.hb - 2 * note.start, cpb) ELSE NoCells)

\* draw.rs 94-225: the loop over the notes and the Ok(output).
NoteLines(first_note_start, last_note_end, cpb, segs) ==
    [status |-> IF \E k \in 1..Len(segs) : segs[k].panic THEN "panic" ELSE "ok",
     first_note_start |-> first_note_start,
     last_note_end |-> last_note_end,
     chars_per_beat |-> cpb,
     segments |-> segs]

\* draw.rs 92-225.
DrawLoop(line, T, beat, first_note_start, last_note_end, cpb, bld) ==
    NoteLines(first_note_start, last_note_end, cpb,
              [k \in 1..Len(T) |->
                  NoteSegment(line.notes[T[k]], T[k], beat, first_note_start,
                              last_note_end, cpb, bld)])

\* draw.rs 32-226.
draw_notelines(line, beat, term_width, bld) ==
    IF line.notes = <<>>
    THEN [status |-> "err", first_note_start |-> 0, last_note_end |-> 0,
          chars_per_beat |-> [kind |-> "none", num |-> 0, den |-> 0],
          segments |-> <<>>]
    ELSE DrawLoop(line, TimedNotes(line), beat, FirstNoteStart(line),
                  LastNoteEnd(line),
                  CharsPerBeat(term_width, FirstNoteStart(line), LastNoteEnd(line)),
                  bld)

(***************************************************************************)
(* draw.rs: generate_screen                                                *)
(***************************************************************************)
\* draw.rs 20: (term_width - uncolored_line.len() as u16) / 2 + 1, in u16:
\* the subtraction overflows when the text is wider than the terminal.
LineVpos(line, term_width, bld) ==
    LET l == TextLen(line, 1) % (U16Max + 1) IN
    IF l > term_width
    THEN [panic |-> bld = "debug", col |-> (term_width - l + U16Max + 1) \div 2 + 1]
    ELSE [panic |-> FALSE, col |-> (term_width - l) \div 2 + 1]

\* draw.rs 13-30.  status: "ok" (a frame), "err" (the Err of draw_notelines,
\* passed on by ?), "panic".
generate_screen(line, beat, term_width, bld) ==
    LET vpos == LineVpos(line, term_width, bld)
        note_lines == draw_notelines(line, beat, term_width, bld)
    IN [status |-> IF vpos.panic THEN "panic" ELSE note_lines.status,
        beat |-> beat,
        term_width |-> term_width,
        line_vpos |-> vpos.col,
        colored_line |-> line_to_corlor_str(line, beat),
        note_lines |-> note_lines]

(***************************************************************************)
(* main.rs: handle_message                                                 *)
(***************************************************************************)
Messages == {"Error", "Eos", "DurationChanged", "StateChangedPlaying",
             "StateChangedPaused", "StateChangedOther", "Other"}

\* A variant of handle_message that only logs End-Of-Stream.
handle_message_eos_ignored(cd, msg) ==
    CASE msg = "Error" -> [cd EXCEPT !.terminate = TRUE]
      [] msg = "DurationChanged" -> [cd EXCEPT !.duration = "none"]
      [] msg = "StateChangedPlaying" -> [cd EXCEPT !.playing = TRUE]
      [] msg = "StateChangedPaused" -> [cd EXCEPT !.playing = FALSE]
      [] OTHER -> cd

\* main.rs 533-568 on custom_data = [playing, terminate, duration].
\* StateChangedOther is a state change of an element that is not the playbin.
handle_message(cd, msg) ==
    CASE msg = "Error" -> [cd EXCEPT !.terminate = TRUE]
      [] msg = "Eos" -> [cd EXCEPT !.terminate = TRUE]
      [] msg = "DurationChanged" -> [cd EXCEPT !.duration = "none"]
      [] msg = "StateChangedPlaying" -> [cd EXCEPT !.playing = TRUE]
      [] msg = "StateChangedPaused" -> [cd EXCEPT !.playing = FALSE]
      [] OTHER -> cd

(***************************************************************************)
(* main.rs: run, the line pointers                                         *)
(***************************************************************************)
\* line_iter.next(): 0 is None; line_iter is the index of the next line.
IterItem(iter, lines) == IF iter <= Len(lines) THEN iter ELSE 0

IterAdvance(iter, lines) == IF iter <= Len(lines) THEN iter + 1 ELSE iter

\* main.rs 165-170.  With no next line: beat as i32 + 100, an i32 addition
\* that overflows for a beat of 2^31 - 100 or more: a panic with overflow
\* checks, a wrap-around without.
NextLineStart(lines, next, beat, bld) ==
    IF next # 0
    THEN [panic |-> FALSE, value |-> lines[next].start]
    ELSE LET t == BeatAsI32(beat) IN
         IF t > I32Max - 100
         THEN [panic |-> bld = "debug", value |-> I32Min + (t - (I32Max - 99))]
         ELSE [panic |-> FALSE, value |-> t + 100]

\* A variant of TransitionFires that fires already at the next line's start.
TransitionFires_at_start(beat, next_line_start) == BeatGE(beat, next_line_start)

\* main.rs 171: beat > next_line_start as f32.
TransitionFires(beat, next_line_start) == BeatGT(beat, next_line_start)

\* main.rs 174: the beat of the re-print of the old line.
FinalBeat(beat) == BeatPlus100(beat)

NoFrame == [status |-> "none"]

\* A variant of PlayPrint that prints nothing in a tick that changed line.
PlayPrint_skip_after_clear(lines, bld, beat, tw2, nls, fires, final, final_line, advanced, cur1, next1, iter1) ==
    LET frame == IF ~nls.panic /\ ~fires /\ cur1 # 0
                 THEN generate_screen(lines[cur1], beat, tw2, bld)
                 ELSE NoFrame
    IN [beat |-> beat, fired |-> fires, final |-> final, final_line |-> final_line,
        clears |-> IF advanced THEN 1 ELSE 0,
        frame |-> frame,
        frame_line |-> IF ~nls.panic /\ ~fires THEN cur1 ELSE 0,
        current_line |-> cur1, next_line |-> next1, line_iter |-> iter1,
        exit |-> IF nls.panic THEN "panic"
                 ELSE IF fires /\ ~advanced THEN final.status
                 ELSE IF frame.status \in {"err", "panic"} THEN frame.status
                 ELSE "no"]

\* main.rs 187-191: the print of the current line, and what the tick leaves.
PlayPrint(lines, bld, beat, tw2, nls, fires, final, final_line, advanced, cur1, next1, iter1) ==
    LET reaches_print == ~nls.panic /\ (~fires \/ advanced)
        frame == IF reaches_print /\ cur1 # 0
                 THEN generate_screen(lines[cur1], beat, tw2, bld)
                 ELSE NoFrame
    IN [beat |-> beat, fired |-> fires, final |-> final, final_line |-> final_line,
        clears |-> IF advanced THEN 1 ELSE 0,
        frame |-> frame,
        frame_line |-> IF reaches_print THEN cur1 ELSE 0,
        current_line |-> cur1, next_line |-> next1, line_iter |-> iter1,
        exit |-> IF nls.panic THEN "panic"
                 ELSE IF fires /\ ~advanced THEN final.status
                 ELSE IF frame.status \in {"err", "panic"} THEN frame.status
                 ELSE "no"]

\* A variant of PlayTransition that takes the new current line from the
\* iterator instead of next_line.
PlayTransition_from_iterator(lines, bld, cur, next, iter, beat, tw1, tw2, nls, fires) ==
    LET final == IF fires /\ cur # 0
                 THEN generate_screen(lines[cur], FinalBeat(beat), tw1, bld)
                 ELSE NoFrame
        advanced == fires /\ final.status \in {"none", "ok"}
    IN PlayPrint(lines, bld, beat, tw2, nls, fires, final,
                 IF fires THEN cur ELSE 0, advanced,
                 IF advanced THEN IterItem(iter, lines) ELSE cur,
                 IF advanced THEN IterItem(iter, lines) ELSE next,
                 IF advanced THEN IterAdvance(iter, lines) ELSE iter)

\* main.rs 171-185: the re-print of the old line at FinalBeat, then the
\* pointers advance and the screen is cleared; a failed re-print leaves run
\* before either.
PlayTransition(lines, bld, cur, next, iter, beat, tw1, tw2, nls, fires) ==
    LET final == IF fires /\ cur # 0
                 THEN generate_screen(lines[cur], FinalBeat(beat), tw1, bld)
                 ELSE NoFrame
        advanced == fires /\ final.status \in {"none", "ok"}
    IN PlayPrint(lines, bld, beat, tw2, nls, fires, final,
                 IF fires THEN cur ELSE 0, advanced,
                 IF advanced /\ next # 0 THEN next ELSE cur,
                 IF advanced THEN IterItem(iter, lines) ELSE next,
                 IF advanced THEN IterAdvance(iter, lines) ELSE iter)

\* main.rs 159-191, the body of "if custom_data.playing" after the queries,
\* as a function of the state at the start of the tick and of the tick's
\* inputs: the position and the terminal widths the two generate_screen
\* calls read.  exit is "no" when the body runs to its end, "err" when a
\* generate_screen(..)? returns the error from run, "panic" on a panic.
PlayBody(lines, header, bld, cur, next, iter, position_ms, tw1, tw2) ==
    LET beat == BeatAt(position_ms, header)
        nls == NextLineStart(lines, next, beat, bld)
    IN PlayTransition(lines, bld, cur, next, iter, beat, tw1, tw2, nls,
                      ~nls.panic /\ TransitionFires(beat, nls.value))

(***************************************************************************)
(* pitch.rs                                                                *)
(* A sample is an f32 in [-1, 1]; here it is an integer count of           *)
(* 1/FullScale.  A note (pitch_calc's LetterOctave) is its step number, a  *)
(* frequency is a count of 1/100 Hz.  A weight is the f64 num/den or NaN.  *)
(***************************************************************************)
\* pitch_calc, LetterOctave(letter, octave).to_step(): 12 steps an octave,
\* C in octave 4 is step 60.
to_step(letter, octave) ==
    (octave + 1) * 12 + (CASE letter = "C" -> 0 [] letter = "A" -> 9)

\* pitch_calc, Step(s).to_hz() for the steps 36 (C2) to 81 (A5), in 1/100 Hz:
\* equal temperament, step 69 (A4) is 440 Hz.
StepHz ==
    << 6541,  6930,  7342,  7778,  8241,  8731,  9250,  9800, 10383, 11000,
      11654, 12347, 13081, 13859, 14683, 15556, 16481, 17461, 18500, 19600,
      20765, 22000, 23308, 24694, 26163, 27718, 29366, 31113, 32963, 34923,
      36999, 39200, 41530, 44000, 46616, 49388, 52325, 55437, 58733, 62225,
      65926, 69846, 73999, 78399, 83061, 88000>>

to_hz(step) == StepHz[step - to_step("C", 2) + 1]

\* pitch.rs 4: (sample_rate / freq).round() as usize
samples_per_period(sample_rate, freq) == (200 * sample_rate + freq) \div (2 * freq)

Abs(x) == IF x < 0 THEN -x ELSE x

\* pitch.rs 5-7: samples zipped with samples.skip(spp), the fold of |x - y|
\* over the pairs i, i + spp; no pair is left when spp >= len.
RECURSIVE accum_dist(_, _, _)
accum_dist(samples, spp, i) ==
    IF i + spp > Len(samples) THEN 0
    ELSE Abs(samples[i] - samples[i + spp]) + accum_dist(samples, spp, i + 1)

\* the sample value 1.0
FullScale == 24

NaN == [nan |-> TRUE, num |-> 0, den |-> 1]

\* pitch.rs 3-9: 1.0 - accum_dist / samples.len(); 0.0 / 0 is NaN.
do_autocorrelation_with_freq(samples, sample_rate, freq) ==
    LET den == FullScale * Len(samples) IN
    IF Len(samples) = 0 THEN NaN
    ELSE [nan |-> FALSE,
          num |-> den - accum_dist(samples, samples_per_period(sample_rate, freq), 1),
          den |-> den]

\* f64 a > b; false when either is NaN
WeightGT(a, b) == ~a.nan /\ ~b.nan /\ a.num * b.den > b.num * a.den

\* pitch.rs 11-31: one (note, weight) for each step of first_semitone..last_semitone,
\* a range that excludes its upper end.
get_note_wieghts(samples, sample_rate) ==
    LET first_semitone == to_step("C", 2)
        last_semitone == to_step("A", 5) IN
    [k \in 1..(last_semitone - first_semitone) |->
        [note |-> first_semitone + k - 1,
         weight |-> do_autocorrelation_with_freq(samples, sample_rate,
                                                 to_hz(first_semitone + k - 1))]]

\* pitch.rs 37-43: the fold's closure
RECURSIVE DominantFold(_, _, _)
DominantFold(weights, k, old) ==
    IF k > Len(weights) THEN old
    ELSE IF WeightGT(weights[k].weight, old.weight)
         THEN DominantFold(weights, k + 1, weights[k])
         ELSE DominantFold(weights, k + 1, old)

\* pitch.rs 33-45
get_dominant_note(samples, sample_rate) ==
    DominantFold(get_note_wieghts(samples, sample_rate), 1,
                 [note |-> to_step("C", 2),
                  weight |-> [nan |-> FALSE, num |-> -1, den |-> 1]]).note

NoCapture == [taken |-> FALSE, samples |-> <<>>, sample_rate |-> 0, status |-> "none", note |-> 0]

(***************************************************************************)
(* Bounds and inputs                                                       *)
(***************************************************************************)
\* Positions are multiples of PosStep ms, up to MaxPosSteps steps.
MaxPosSteps == 16

PosStep == 50

\* A position late enough for a beat above i32::MAX at the fastest tempo.
LatePosition == 2147500

Positions == {k * PosStep : k \in 0..MaxPosSteps} \cup {LatePosition}

NarrowTerm == 8

WideTerm == 20

TermWidths == {NarrowTerm, WideTerm}

\* Tempo 150 gives one beat per 100 ms; 15000000 gives 1000 beats per ms.
SlowBpm == 150

FastBpm == 15000000

LongDuration == 200

Songs ==
    { \* three ordinary lines
      Song(HeaderNoGap(SlowBpm),
           << Line(0, << Regular(0, 1, "Hel"), Golden(1, 1, "lo") >>),
              Line(3, << Freestyle(3, 1, "wor"), Regular(4, 1, "ld") >>),
              Line(6, << Golden(6, 1, "x") >>) >>),
      \* a duet: PlayerChange first and last, and a gap
      Song(Header(SlowBpm, 150),
           << Line(0, << PlayerChange, Regular(1, 1, "a"), Regular(2, 1, "b") >>),
              Line(4, << Regular(4, 2, "c"), PlayerChange >>) >>),
      \* lines without timed notes
      Song(HeaderNoGap(SlowBpm),
           << Line(0, << PlayerChange >>),
              Line(2, << >>),
              Line(4, << Regular(4, 2, "d") >>) >>),
      Song(HeaderNoGap(SlowBpm),
           << Line(0, << >>),
              Line(0, << Regular(1, 2, "e") >>) >>),
      \* notes of duration 0, alone and beside another note
      Song(HeaderNoGap(SlowBpm),
           << Line(0, << Golden(0, 0, "t"), Regular(0, 2, "u") >>),
              Line(3, << Regular(3, 1, "k"), Regular(5, 0, "m") >>),
              Line(6, << Regular(7, 0, "z") >>) >>),
      \* notes out of order: last_note_end equal to or below first_note_start
      Song(HeaderNoGap(SlowBpm),
           << Line(0, << Regular(2, 2, "v"), Regular(0, 2, "w") >>),
              Line(4, << Regular(6, 1, "p"), Regular(4, 1, "q") >>) >>),
      \* a note that outlasts the start of the next line
      Song(HeaderNoGap(SlowBpm),
           << Line(0, << Regular(0, LongDuration, "la") >>),
              Line(4, << Regular(4, 2, "b") >>) >>),
      \* text wider than the narrow terminal
      Song(HeaderNoGap(SlowBpm),
           << Line(0, << Regular(0, 2, "averylong"), Regular(2, 2, "word") >>) >>),
      \* no line at all
      Song(HeaderNoGap(SlowBpm), << >>),
      \* a fast tempo
      Song(Header(FastBpm, 0),
           << Line(0, << Regular(0, 2, "f") >>),
              Line(4, << Regular(4, 2, "g") >>) >>) }

\* sample buffers: silence, a rising ramp, and a pulse every period samples
MaxSamples == 24

MaxPeriod == 10

Silence(n) == [i \in 1..n |-> 0]

Ramp(n) == [i \in 1..n |-> i - 1]

PulseTrain(n, period) == [i \in 1..n |-> IF (i - 1) % period = 0 THEN FullScale ELSE 0]

Buffers ==
    UNION {{Silence(n), Ramp(n)} \cup {PulseTrain(n, period) : period \in 1..MaxPeriod} :
           n \in 0..MaxSamples}

\* a sample rate at which the top two steps of the scale have different periods
SampleRates == {1300}

(***************************************************************************)
(* main.rs: run as a state machine, one action per kind of tick            *)
(***************************************************************************)
InitTick ==
    [msg |-> "start", queried |-> FALSE, position |-> 0, beat |-> Finite(0),
     fired |-> FALSE, final |-> NoFrame, final_line |-> 0, clears |-> 0,
     frame |-> NoFrame, frame_line |-> 0, cur0 |-> 0, next0 |-> 0,
     playing0 |-> FALSE]

\* main.rs 84-93 and 120-125: the state when the main loop begins.
Init ==
    /\ song \in Songs
    /\ build \in {"debug", "release"}
    /\ current_line = IterItem(1, song.lines)
    /\ next_line = IterItem(IterAdvance(1, song.lines), song.lines)
    /\ line_iter = IterAdvance(IterAdvance(1, song.lines), song.lines)
    /\ playing = FALSE
    /\ terminate = FALSE
    /\ duration = "none"
    /\ pc = "loop"
    /\ tick = InitTick
    /\ capture = NoCapture

Looping == pc = "loop" /\ ~terminate

\* main.rs 136-141: the poll yields a message; nothing else happens.
TickMessage(msg) ==
    /\ Looping
    /\ LET cd == handle_message([playing |-> playing, terminate |-> terminate,
                                 duration |-> duration], msg) IN
        /\ playing' = cd.playing
        /\ terminate' = cd.terminate
        /\ duration' = cd.duration
    /\ tick' = [InitTick EXCEPT !.msg = msg, !.cur0 = current_line,
                                !.next0 = next_line, !.playing0 = playing]
    /\ UNCHANGED <<song, build, current_line, next_line, line_iter, pc, capture>>

\* main.rs 142-143: the poll times out and the player is not playing.
TickIdle ==
    /\ Looping
    /\ ~playing
    /\ tick' = [InitTick EXCEPT !.msg = "None", !.cur0 = current_line,
                                !.next0 = next_line, !.playing0 = FALSE]
    /\ UNCHANGED <<song, build, current_line, next_line, line_iter,
                   playing, terminate, duration, pc, capture>>

\* main.rs 142-192: the poll times out and the player is playing.  A failed
\* position query reads as position 0 (unwrap_or); the duration is queried
\* when unknown (151-157) and the query may fail: dur is the duration after
\* that step.
TickPlay(position_ms, dur, tw1, tw2) ==
    /\ Looping
    /\ playing
    /\ dur = "known" \/ duration = "none"
    /\ duration' = dur
    /\ \E r \in {PlayBody(song.lines, song.header, build, current_line, next_line,
                          line_iter, position_ms, tw1, tw2)} :
        /\ current_line' = r.current_line
        /\ next_line' = r.next_line
        /\ line_iter' = r.line_iter
        /\ pc' = IF r.exit = "no" THEN "loop" ELSE r.exit
        /\ tick' = [msg |-> "None", queried |-> TRUE, position |-> position_ms,
                    beat |-> r.beat, fired |-> r.fired, final |-> r.final,
                    final_line |-> r.final_line, clears |-> r.clears,
                    frame |-> r.frame, frame_line |-> r.frame_line,
                    cur0 |-> current_line, next0 |-> next_line,
                    playing0 |-> TRUE]
    /\ UNCHANGED <<song, build, playing, terminate, capture>>

\* main.rs 135 and 198-203: the loop condition fails, the pipeline is shut
\* down and run returns Ok.
Shutdown ==
    /\ pc = "loop"
    /\ terminate
    /\ pc' = "done"
    /\ UNCHANGED <<song, build, current_line, next_line, line_iter,
                   playing, terminate, duration, tick, capture>>

Next ==
    \/ \E msg \in Messages : TickMessage(msg)
    \/ TickIdle
    \/ \E position_ms \in Positions, dur \in {"none", "known"},
          tw1 \in TermWidths, tw2 \in TermWidths :
            TickPlay(position_ms, dur, tw1, tw2)
    \/ Shutdown

Spec == Init /\ [][Next]_vars

(***************************************************************************)
(* pitch.rs: get_dominant_note applied to a buffer                         *)
(***************************************************************************)
InitPitch ==
    /\ song = Song(HeaderNoGap(SlowBpm), <<>>)
    /\ build = "debug"
    /\ current_line = 0
    /\ next_line = 0
    /\ line_iter = 1
    /\ playing = FALSE
    /\ terminate = FALSE
    /\ duration = "none"
    /\ pc = "pitch"
    /\ tick = InitTick
    /\ capture = NoCapture

\* pitch.rs 33: a call of get_dominant_note(samples, sample_rate).  Its type is
\* LetterOctave, not a Result, and nothing in it indexes, unwraps or divides
\* integers: every call ends "ok" with a note.
Capture(samples, sample_rate) ==
    /\ capture' = [taken |-> TRUE, samples |-> samples, sample_rate |-> sample_rate,
                   status |-> "ok",
                   note |-> get_dominant_note(samples, sample_rate)]
    /\ UNCHANGED <<song, build, current_line, next_line, line_iter,
                   playing, terminate, duration, pc, tick>>

NextPitch == \E samples \in Buffers, sample_rate \in SampleRates : Capture(samples, sample_rate)

SpecPitch == InitPitch /\ [][NextPitch]_vars

(***************************************************************************)
(* What a tick recorded                                                    *)
(***************************************************************************)
\* The generate_screen calls of the last tick, each with the line it was
\* called on: the re-print of the old line (main.rs 174) and the print of
\* the current line (main.rs 189).
Calls ==
    (IF tick.final.status = "none" THEN {}
     ELSE {[line |-> song.lines[tick.final_line], screen |-> tick.final]})
    \cup
    (IF tick.frame.status = "none" THEN {}
     ELSE {[line |-> song.lines[tick.frame_line], screen |-> tick.frame]})

\* The calls that returned a frame.
Frames == {c \in Calls : c.screen.status = "ok"}

\* The highlight state a text colour stands for.
LyricState(color) ==
    CASE color \in {"black_on_bright_yellow", "black_on_bright_white"} -> "Active"
      [] color \in {"yellow", "white"} -> "Played"
      [] color \in {"bright_yellow", "bright_blue"} -> "Upcoming"

\* The highlight state the bars of a note stand for: a current note has a
\* marked sub-bar over its full bar.
BarState(seg) ==
    IF seg.has_marked THEN "Active"
    ELSE IF seg.color \in {"bright_yellow", "white"} THEN "Played"
    ELSE "Upcoming"

\* The rule of the highlight engine, on half beats.
HighlightRule(note, beat) ==
    IF beat.big THEN "Played"
    ELSE IF beat.hb < 2 * note.start THEN "Upcoming"
    ELSE IF beat.hb <= 2 * (note.start + note.duration) THEN "Active"
    ELSE "Played"

\* The timed notes of a frame, each with its coloured text and its bars.
Pieces(c) ==
    {[note |-> c.line.notes[c.screen.colored_line[k].note],
      beat |-> c.screen.beat,
      lyric |-> c.screen.colored_line[k],
      seg |-> c.screen.note_lines.segments[k]] :
        k \in 1..Len(c.screen.colored_line)}

AllPieces == UNION {Pieces(c) : c \in Frames}

RenderTick == tick.msg = "None" /\ tick.playing0

(***************************************************************************)
(* C1                                                                      *)
(***************************************************************************)
\* C1: in every frame, every timed note is Upcoming when beat < start,
\* Active when start <= beat <= start + duration and Played when
\* beat > start + duration, in the colour of its text and in its bars alike.
C1_HighlightByNoteAlone ==
    \A p \in AllPieces :
        /\ LyricState(p.lyric.color) = HighlightRule(p.note, p.beat)
        /\ BarState(p.seg) = HighlightRule(p.note, p.beat)

\* A frame at beat == start + duration of a note of positive duration, which
\* is Active there, beside a note that is not.
C1_Witness ==
    \E p \in AllPieces, q \in AllPieces :
        /\ p.note.duration > 0
        /\ ~p.beat.big /\ p.beat.hb = 2 * (p.note.start + p.note.duration)
        /\ BarState(p.seg) = "Active"
        /\ q.beat = p.beat /\ BarState(q.seg) = "Played"

(***************************************************************************)
(* C2                                                                      *)
(***************************************************************************)
\* The line after line i in the song, 0 when i is the last.
Following(i) == IF i < Len(song.lines) THEN i + 1 ELSE 0

\* C2 as claimed: in a rendering tick with a next line, the current line is
\* kept and nothing is cleared while beat <= the next line's start, and
\* whenever beat > the next line's start the current line becomes the former
\* next line, the next line the following one, and one clear is issued.
C2_TransitionAlwaysCompletes ==
    (RenderTick /\ tick.next0 # 0) =>
        IF BeatGT(tick.beat, song.lines[tick.next0].start)
        THEN /\ current_line = tick.next0
             /\ next_line = Following(tick.next0)
             /\ tick.clears = 1
        ELSE /\ current_line = tick.cur0
             /\ next_line = tick.next0
             /\ tick.clears = 0

\* C2 amended: as claimed, provided the re-print of the old line returns a
\* frame; when it fails, run is left in that tick with the pointers as they
\* were and nothing cleared.
C2_TransitionUnlessReprintFails ==
    (RenderTick /\ tick.next0 # 0) =>
        IF BeatGT(tick.beat, song.lines[tick.next0].start)
        THEN /\ tick.fired
             /\ IF tick.final.status \in {"err", "panic"}
                THEN /\ pc = tick.final.status
                     /\ current_line = tick.cur0
                     /\ next_line = tick.next0
                     /\ tick.clears = 0
                ELSE /\ current_line = tick.next0
                     /\ next_line = Following(tick.next0)
                     /\ tick.clears = 1
        ELSE /\ ~tick.fired
             /\ tick.final.status = "none"
             /\ current_line = tick.cur0
             /\ next_line = tick.next0
             /\ tick.clears = 0

\* A tick that re-printed the old line, moved on to the next line with a
\* line still following, cleared the screen once, and the loop goes on.
C2_Witness ==
    /\ RenderTick /\ tick.next0 # 0 /\ tick.cur0 # 0
    /\ tick.fired /\ tick.clears = 1 /\ tick.final.status = "ok"
    /\ current_line = tick.next0
    /\ next_line # 0
    /\ pc = "loop"

(***************************************************************************)
(* C3                                                                      *)
(***************************************************************************)
\* C3: in the re-print of the old line of a line change, every timed note of
\* the old line is Played, in its text and in its bars.
C3_FinalPassAllPlayed ==
    (RenderTick /\ tick.fired /\ tick.final.status = "ok") =>
        \A p \in Pieces([line |-> song.lines[tick.final_line], screen |-> tick.final]) :
            /\ LyricState(p.lyric.color) = "Played"
            /\ BarState(p.seg) = "Played"

(***************************************************************************)
(* C4                                                                      *)
(***************************************************************************)
\* C4: in a rendering tick without a next line, whatever the beat, the
\* transition does not fire: no re-print, no clear, the current line stays.
C4_LastLineNeverFires ==
    (RenderTick /\ tick.next0 = 0) =>
        /\ ~tick.fired
        /\ tick.final.status = "none"
        /\ tick.clears = 0
        /\ current_line = tick.cur0

(***************************************************************************)
(* C5                                                                      *)
(***************************************************************************)
\* C5: the tick that handles Error or End-Of-Stream sets terminate and does
\* nothing else (no position query, no line change, no frame); terminate is
\* never reset, and once it is set no further tick runs.
C5_TerminateStopsLoop ==
    [][ /\ (tick'.msg \in {"Error", "Eos"} =>
              /\ terminate'
              /\ ~tick'.queried
              /\ tick'.final = NoFrame /\ tick'.frame = NoFrame
              /\ tick'.clears = 0)
        /\ (tick' # tick /\ tick'.msg \in {"Error", "Eos"} =>
              UNCHANGED <<current_line, next_line, line_iter>>)
        /\ (terminate =>
              /\ terminate'
              /\ UNCHANGED <<tick, current_line, next_line, line_iter,
                             playing, duration>>) ]_vars

\* End-Of-Stream came while playing, after a frame had been rendered, and
\* run has returned.
C5_Witness ==
    /\ tick.msg = "Eos" /\ tick.playing0
    /\ terminate
    /\ pc = "done"
    /\ current_line > 1

ZeroPieces == {p \in AllPieces : p.note.duration = 0}

\* C7 as claimed: a note of duration 0 is Active at every beat >= start.
C7_ZeroDurationStaysActive ==
    \A p \in ZeroPieces :
        BeatGE(p.beat, p.note.start) =>
            /\ LyricState(p.lyric.color) = "Active"
            /\ BarState(p.seg) = "Active"

\* C7 amended: a note of duration 0 is Active exactly at beat == start, with
\* a marked sub-bar as long as its full bar (both empty), Played at every
\* beat > start and Upcoming before; nothing is divided by the duration.
C7_ZeroDurationActiveOnlyAtStart ==
    \A p \in ZeroPieces :
        LET at == ~p.beat.big /\ p.beat.hb = 2 * p.note.start
            after == p.beat.big \/ p.beat.hb > 2 * p.note.start
            state == IF at THEN "Active" ELSE IF after THEN "Played" ELSE "Upcoming"
        IN /\ LyricState(p.lyric.color) = state
           /\ BarState(p.seg) = state
           /\ at => (p.seg.marked = p.seg.full /\ p.seg.full = 0)

\* A frame half a beat after the start of a note of duration 0 shows it
\* Played, in a tick after one that showed it Active.
C7_Witness ==
    \E p \in ZeroPieces :
        /\ ~p.beat.big /\ p.beat.hb = 2 * p.note.start + 1
        /\ BarState(p.seg) = "Played"
        /\ LyricState(p.lyric.color) = "Played"

(***************************************************************************)
(* C8                                                                      *)
(***************************************************************************)
\* The start of the first and the end of the last timed note of a line.
TimedFirstStart(line) == line.notes[TimedNotes(line)[1]].start

TimedLastEnd(line) ==
    LET n == line.notes[TimedNotes(line)[Len(TimedNotes(line))]] IN
    n.start + n.duration

\* C8: for a line with timed notes whose last_end equals its first_start
\* generate_screen returns no frame (it fails), and no frame of a line with
\* timed notes is computed from an infinite or NaN chars_per_beat.
C8_DegenerateLineFails ==
    \A c \in Calls :
        TimedNotes(c.line) # <<>> =>
            /\ TimedLastEnd(c.line) = TimedFirstStart(c.line)
                  => c.screen.status # "ok"
            /\ c.screen.status = "ok"
                  => c.screen.note_lines.chars_per_beat.kind = "finite"

(***************************************************************************)
(* C9                                                                      *)
(***************************************************************************)
\* C9: generate_screen fails with an error on every line without a timed
\* note, and returns no frame for it.
C9_NoTimedNoteRejected ==
    \A c \in Calls :
        TimedNotes(c.line) = <<>> => c.screen.status = "err"

(***************************************************************************)
(* C10                                                                     *)
(***************************************************************************)
\* C10: the first_start of the layout is the start of the line's first timed
\* note and its last_end the end of the line's last timed note.
C10_FirstLastFromTimedNotes ==
    \A c \in Calls :
        LET T == TimedNotes(c.line) IN
        (T # <<>> /\ c.screen.status \in {"ok", "panic"}) =>
            /\ c.screen.note_lines.first_note_start = c.line.notes[T[1]].start
            /\ c.screen.note_lines.last_note_end =
                  c.line.notes[T[Len(T)]].start + c.line.notes[T[Len(T)]].duration

(***************************************************************************)
(* C11                                                                     *)
(***************************************************************************)
Scale == to_step("C", 2)..to_step("A", 5)

Score(step) ==
    do_autocorrelation_with_freq(capture.samples, capture.sample_rate, to_hz(step))

\* C11: for a non-empty buffer get_dominant_note returns the step of the scale
\* C2..A5 (both ends counted) whose score is the maximum, and the lowest such
\* step when several steps reach the maximum.
C11_MaxOverScaleLowestOnTie ==
    (capture.taken /\ Len(capture.samples) > 0) =>
        /\ capture.note \in Scale
        /\ \A step \in Scale :
            IF step < capture.note
            THEN WeightGT(Score(capture.note), Score(step))
            ELSE ~WeightGT(Score(step), Score(capture.note))

(***************************************************************************)
(* C12                                                                     *)
(***************************************************************************)
ShiftOf(step) == samples_per_period(capture.sample_rate, to_hz(step))

\* C12: a call on an empty buffer, or on a buffer shorter than the shift of
\* some step of the scale, ends with the error InvalidInput and returns no
\* note.
C12_ShortBufferIsInvalidInput ==
    (/\ capture.taken
     /\ \/ Len(capture.samples) = 0
        \/ \E step \in Scale : Len(capture.samples) < ShiftOf(step)) =>
        capture.status = "InvalidInput"

(***************************************************************************)
(* C13                                                                     *)
(***************************************************************************)
Periodic(samples, period) ==
    \A i \in 1..(Len(samples) - period) : samples[i] = samples[i + period]

\* the least period of the buffer, 0 when it has none shorter than itself
LeastPeriod(samples) ==
    IF \E period \in 1..(Len(samples) - 1) : Periodic(samples, period)
    THEN CHOOSE period \in 1..(Len(samples) - 1) :
            /\ Periodic(samples, period)
            /\ \A q \in 1..(period - 1) : ~Periodic(samples, q)
    ELSE 0

\* C13: when the buffer is longer than every shift of the scale, is not
\* constant and is perfectly periodic, its least period being the shift of
\* exactly one step, the returned note is that step or a step next to it.
C13_PeriodicBufferFindsItsStep ==
    \A step \in Scale :
        (/\ capture.taken
         /\ \A other \in Scale : ShiftOf(other) < Len(capture.samples)
         /\ LeastPeriod(capture.samples) > 1
         /\ LeastPeriod(capture.samples) = ShiftOf(step)
         /\ \A other \in Scale \ {step} : ShiftOf(other) # ShiftOf(step)) =>
            capture.note \in (step - 1)..(step + 1)

(***************************************************************************)
(* C14                                                                     *)
(***************************************************************************)
\* C14: the beat of a playing tick is (position_ms - gap) * (bpm / 60000) * 4,
\* the gap being 0 when the header has none, that is (in half beats)
\* 7500 * hb = (position_ms - gap) * bpm; at 120 bpm without a gap the
\* position 500 ms is beat 4; a position before the gap has a negative beat,
\* and the tick renders its frame with it as with any other beat.
C14_BeatFormula ==
    /\ BeatAt(500, HeaderNoGap(120)) = Finite(2 * 4)
    /\ BeatAt(500, Header(120, 0)) = Finite(2 * 4)
    /\ (RenderTick /\ tick.queried) =>
        LET gap_ms == IF song.header.gap.some THEN song.header.gap.ms ELSE 0
            d == tick.position - gap_ms
            u == song.header.bpm \div 150
            k == song.header.bpm \div 15000
        IN  /\ song.header.bpm = 150 * u
            /\ IF k > 0 /\ d > I32Max \div k
               THEN tick.beat.big
               ELSE ~tick.beat.big /\ 50 * tick.beat.hb = d * u
            /\ d < 0 =>
                /\ ~tick.beat.big /\ tick.beat.hb < 0
                /\ ~tick.fired
                /\ tick.cur0 # 0 =>
                    /\ tick.frame.status # "none"
                    /\ tick.frame.beat = tick.beat

C14_Witness ==
    /\ RenderTick /\ tick.queried
    /\ song.header.gap.some
    /\ tick.position < song.header.gap.ms
    /\ tick.beat.hb < 0
    /\ tick.frame.status = "ok"
    /\ pc = "loop"

(***************************************************************************)
(* C15                                                                     *)
(***************************************************************************)
ElapsedSegments(c) ==
    {k \in DOMAIN c.screen.note_lines.segments :
        c.screen.note_lines.segments[k].has_elapsed}

\* C15: every frame drawn at a beat from the line's first_note_start to its
\* last_note_end contains exactly one elapsed segment, whose length is the
\* beats elapsed since first_note_start times chars_per_beat, whichever notes
\* have started.
C15_OneElapsedSegment ==
    \A c \in Frames :
        LET nl == c.screen.note_lines IN
        (BeatGE(c.screen.beat, nl.first_note_start) /\
         BeatLE(c.screen.beat, nl.last_note_end)) =>
            /\ Cardinality(ElapsedSegments(c)) = 1
            /\ \A k \in ElapsedSegments(c) :
                nl.segments[k].elapsed =
                    Cells(c.screen.beat.hb - 2 * nl.first_note_start,
                          nl.chars_per_beat).n

(***************************************************************************)
(* C16                                                                     *)
(***************************************************************************)
\* n is (h / 2) * chars_per_beat cut to a whole number of cells (h in half
\* beats, h >= 0); a negative product gives no cell.
IsLength(n, h, cpb) ==
    IF cpb.kind # "finite" THEN n = 0
    ELSE IF cpb.den > 0
         THEN 2 * cpb.den * n <= h * cpb.num /\ h * cpb.num < 2 * cpb.den * (n + 1)
         ELSE n = 0

\* C16: in every frame, every note with start <= beat <= start + duration has
\* a full bar of duration * chars_per_beat cells and a marked sub-bar of
\* (beat - start) * chars_per_beat cells (progress times the full length) at
\* the same position; the sub-bar is empty at beat = start, is the full bar
\* at beat = start + duration and is never longer than the full bar.
C16_ActiveBars ==
    \A c \in Frames :
        \A k \in DOMAIN c.screen.note_lines.segments :
            LET seg == c.screen.note_lines.segments[k]
                note == c.line.notes[seg.note]
                cpb == c.screen.note_lines.chars_per_beat
                h == c.screen.beat.hb - 2 * note.start
            IN (~c.screen.beat.big /\ 0 <= h /\ h <= 2 * note.duration) =>
                /\ seg.has_marked
                /\ IsLength(seg.full, 2 * note.duration, cpb)
                /\ IsLength(seg.marked, h, cpb)
                /\ seg.marked <= seg.full
                /\ h = 0 => seg.marked = 0
                /\ h = 2 * note.duration => seg.marked = seg.full

C16_Witness ==
    \E c \in Frames :
        \E k \in DOMAIN c.screen.note_lines.segments :
            LET seg == c.screen.note_lines.segments[k] IN
            /\ seg.has_marked
            /\ 0 < seg.marked
            /\ seg.marked < seg.full

(***************************************************************************)
(* C17                                                                     *)
(***************************************************************************)
\* C17: in every step the current line stays or moves to the line that
\* follows it in the file, never further and never back, whatever the beat;
\* and a current line, once there is one, is never absent afterwards.
C17_CurrentLineStepsForward ==
    [][/\ current_line' \in {current_line, current_line + 1}
       /\ current_line' <= Len(song.lines)
       /\ current_line # 0 => current_line' # 0]_vars

\* a tick whose beat is already past the start of the line after the new
\* current line: the pointer has moved by one line only
C17_Witness ==
    /\ RenderTick /\ tick.fired
    /\ current_line = tick.cur0 + 1
    /\ current_line < Len(song.lines)
    /\ BeatGT(tick.beat, song.lines[current_line + 1].start)
    /\ pc = "loop"

(***************************************************************************)
(* C18                                                                     *)
(***************************************************************************)
\* C18: in every frame generate_screen produces, the start column of the
\* lyric and the start column of every note bar lie in 1..term_width.
C18_ColumnsInsideTerminal ==
    \A c \in Frames :
        /\ c.screen.line_vpos \in 1..c.screen.term_width
        /\ \A k \in DOMAIN c.screen.note_lines.segments :
            c.screen.note_lines.segments[k].hpos \in 1..c.screen.term_width

====
